---- MODULE Spec2Model ----
(***************************************************************************)
(* Model of version_manager.py: the release script that reads and bumps    *)
(* the VERSION file, inserts an entry into CHANGELOG.md, rewrites version  *)
(* assignments in the configured auxiliary files and drives git.           *)
(*                                                                         *)
(* Text is modelled as a sequence of characters (one-character strings;    *)
(* a non-ASCII character is written as a named token such as "SUP2" for    *)
(* the superscript two or "SPARKLES" for an emoji).  Indices passed to the  *)
(* Py* operators are Python's 0-based indices.                             *)
(***************************************************************************)
EXTENDS Integers, Sequences, FiniteSets, TLC

\* ------------------------------------------------------------------------
\* Bounds of the model
\* ------------------------------------------------------------------------

\* Number of invocations of main() in one behaviour.
MaxRuns == 2

\* Largest version component drawn for the bump_version specification.
MaxComponent == 10

\* ------------------------------------------------------------------------
\* Python string primitives
\* ------------------------------------------------------------------------

\* Characters str.strip() removes and the regex class \s matches.
Whitespace == {" ", "\n", "\t"}

\* Characters accepted by int(): the decimal digits.
DecimalChars == {"0", "1", "2", "3", "4", "5", "6", "7", "8", "9"}

\* Characters for which str.isdigit() is true: the decimal digits and the
\* digits "that need special handling", such as the superscript digits.
DigitChars == DecimalChars \cup {"SUP2"}

SetMin(S) == CHOOSE x \in S : \A y \in S : x <= y

SetMax(S) == CHOOSE x \in S : \A y \in S : x >= y

\* s.strip(chars)
StripChars(s, chars) ==
    LET keep == {i \in 1..Len(s) : s[i] \notin chars}
    IN  IF keep = {} THEN <<>> ELSE SubSeq(s, SetMin(keep), SetMax(keep))

\* s.strip()
Strip(s) == StripChars(s, Whitespace)

\* s.startswith(p)
StartsWith(s, p) == Len(s) >= Len(p) /\ SubSeq(s, 1, Len(p)) = p

\* s.endswith(p)
EndsWith(s, p) == Len(s) >= Len(p) /\ SubSeq(s, Len(s) - Len(p) + 1, Len(s)) = p

\* s starts with sub at the 0-based index i
MatchesAt(s, sub, i) ==
    i >= 0 /\ i + Len(sub) <= Len(s) /\ SubSeq(s, i + 1, i + Len(sub)) = sub

\* s.find(sub, start): the lowest 0-based index >= start where sub occurs, or -1
PyFind(s, sub, start) ==
    LET hits == {i \in start..(Len(s) - Len(sub)) : MatchesAt(s, sub, i)}
    IN  IF hits = {} THEN -1 ELSE SetMin(hits)

\* sub in s
Contains(s, sub) == PyFind(s, sub, 0) >= 0

\* A slice bound as Python clamps it: a negative index counts from the end.
PyIndex(s, i) ==
    IF i < 0 THEN (IF Len(s) + i < 0 THEN 0 ELSE Len(s) + i)
    ELSE (IF i > Len(s) THEN Len(s) ELSE i)

\* s[:i]
PySliceTo(s, i) == SubSeq(s, 1, PyIndex(s, i))

\* s[i:]
PySliceFrom(s, i) == SubSeq(s, PyIndex(s, i) + 1, Len(s))

\* s.split(sep) for a one-character separator
RECURSIVE Split(_, _)
Split(s, sep) ==
    LET i == PyFind(s, <<sep>>, 0)
    IN  IF i < 0 THEN <<s>>
        ELSE <<PySliceTo(s, i)>> \o Split(PySliceFrom(s, i + 1), sep)

\* s.replace(old, new): non-overlapping occurrences, left to right
RECURSIVE StrReplace(_, _, _)
StrReplace(s, old, new) ==
    IF s = <<>> \/ old = <<>> THEN s
    ELSE IF MatchesAt(s, old, 0)
         THEN new \o StrReplace(PySliceFrom(s, Len(old)), old, new)
         ELSE <<s[1]>> \o StrReplace(Tail(s), old, new)

\* p.isdigit()
IsDigit(p) == p # <<>> /\ \A i \in 1..Len(p) : p[i] \in DigitChars

\* Whether int(p) succeeds, for p over DigitChars: int() takes decimal digits only.
IntParses(p) == p # <<>> /\ \A i \in 1..Len(p) : p[i] \in DecimalChars

DigitValue(c) ==
    CASE c = "0" -> 0 [] c = "1" -> 1 [] c = "2" -> 2 [] c = "3" -> 3
      [] c = "4" -> 4 [] c = "5" -> 5 [] c = "6" -> 6 [] c = "7" -> 7
      [] c = "8" -> 8 [] c = "9" -> 9

DigitChar(d) == <<"0", "1", "2", "3", "4", "5", "6", "7", "8", "9">>[d + 1]

\* int(p) for a decimal string
RECURSIVE ParseInt(_)
ParseInt(p) ==
    IF Len(p) = 1 THEN DigitValue(p[1])
    ELSE 10 * ParseInt(SubSeq(p, 1, Len(p) - 1)) + DigitValue(p[Len(p)])

\* f"{n}" for a non-negative integer
RECURSIVE FormatInt(_)
FormatInt(n) ==
    IF n < 10 THEN <<DigitChar(n)>>
    ELSE FormatInt(n \div 10) \o <<DigitChar(n % 10)>>

\* ------------------------------------------------------------------------
\* Configuration
\* ------------------------------------------------------------------------

\* VERSIONED_FILES: the auxiliary files whose version assignment is rewritten.
VERSIONED_FILES == <<"setup.py", "src/__init__.py">>

AuxPaths == {VERSIONED_FILES[i] : i \in 1..Len(VERSIONED_FILES)}

CategoryKeys == {"feature", "fix", "refactor", "chore", "docs"}

\* CHANGELOG_CATEGORIES[key]
CHANGELOG_CATEGORIES(key) ==
    CASE key = "feature"  -> <<"SPARKLES", " ", "A", "d", "d", "e", "d">>
      [] key = "fix"      -> <<"BUG", " ", "F", "i", "x", "e", "d">>
      [] key = "refactor" -> <<"HAMMER", " ", "R", "e", "f", "a", "c", "t", "o", "r">>
      [] key = "chore"    -> <<"BROOM", " ", "C", "h", "o", "r", "e">>
      [] key = "docs"     -> <<"MEMO", " ", "D", "o", "c", "s">>

DEFAULT_VERSION == <<"0", ".", "0", ".", "0">>

HEADING == <<"#", " ", "C", "h", "a", "n", "g", "e", "l", "o", "g">>

FRESH_CHANGELOG == HEADING \o <<"\n", "\n">>

\* A file of the working directory: absent, or present with its text.
Absent == [exists |-> FALSE, text |-> <<>>]

File(t) == [exists |-> TRUE, text |-> t]

\* ------------------------------------------------------------------------
\* Pure functions of version_manager.py
\* ------------------------------------------------------------------------

\* get_current_version(): the value returned and the VERSION file afterwards.
get_current_version(vf) ==
    LET created == IF vf.exists THEN vf ELSE File(DEFAULT_VERSION)
        version == Strip(created.text)
        parts   == Split(version, ".")
    IN  IF Len(parts) # 3 \/ ~(\A i \in 1..Len(parts) : IsDigit(parts[i]))
        THEN [ret |-> DEFAULT_VERSION, file |-> File(DEFAULT_VERSION)]
        ELSE [ret |-> version, file |-> created]

Dot(a, b, c) == a \o <<".">> \o b \o <<".">> \o c

\* bump_version with the patch component left alone on a minor bump.
bump_version_keeps_patch(current_version, bump_type) ==
    LET parts == Split(current_version, ".")
    IN  IF Len(parts) # 3 \/ ~(\A i \in 1..Len(parts) : IntParses(parts[i]))
        THEN [raised |-> TRUE, value |-> <<>>]
        ELSE LET major == ParseInt(parts[1])
                 minor == ParseInt(parts[2])
                 patch == ParseInt(parts[3])
             IN  [raised |-> FALSE,
                  value  |->
                    IF bump_type = "major"
                    THEN Dot(FormatInt(major + 1), FormatInt(0), FormatInt(0))
                    ELSE IF bump_type = "minor"
                    THEN Dot(FormatInt(major), FormatInt(minor + 1), FormatInt(patch))
                    ELSE Dot(FormatInt(major), FormatInt(minor), FormatInt(patch + 1))]

\* bump_version(current_version, bump_type): the new version, or the
\* ValueError that int() or the unpacking raises.
bump_version(current_version, bump_type) ==
    LET parts == Split(current_version, ".")
    IN  IF Len(parts) # 3 \/ ~(\A i \in 1..Len(parts) : IntParses(parts[i]))
        THEN [raised |-> TRUE, value |-> <<>>]
        ELSE LET major == ParseInt(parts[1])
                 minor == ParseInt(parts[2])
                 patch == ParseInt(parts[3])
             IN  [raised |-> FALSE,
                  value  |->
                    IF bump_type = "major"
                    THEN Dot(FormatInt(major + 1), FormatInt(0), FormatInt(0))
                    ELSE IF bump_type = "minor"
                    THEN Dot(FormatInt(major), FormatInt(minor + 1), FormatInt(0))
                    ELSE Dot(FormatInt(major), FormatInt(minor), FormatInt(patch + 1))]

\* category.lower() on the category keys the model draws.
Lower(category) == IF category = "Fix" THEN "fix" ELSE category

\* build_changelog_entry(new_version, message, category), today being date_str
build_changelog_entry(new_version, message, category, date_str) ==
    LET header == IF Lower(category) \in CategoryKeys
                  THEN CHANGELOG_CATEGORIES(Lower(category))
                  ELSE CHANGELOG_CATEGORIES("feature")
        entry_content == IF Contains(message, <<"\n">>)
                         THEN Strip(message)
                         ELSE <<"-", " ">> \o Strip(message)
    IN  <<"#", "#", " ", "[">> \o new_version \o <<"]", " ", "-", " ">> \o date_str
        \o <<"\n">> \o <<"#", "#", "#", " ">> \o header \o <<"\n">>
        \o entry_content \o <<"\n", "\n">>

\* The message as main() normalises it: the surrounding quote characters are
\* stripped (after the surrounding whitespace when the message is triple-quoted).
normalize_message(raw_message) ==
    LET dq3 == <<"\"", "\"", "\"">>
        sq3 == <<"'", "'", "'">>
    IN  IF (StartsWith(raw_message, dq3) \/ StartsWith(raw_message, sq3))
           /\ (EndsWith(raw_message, dq3) \/ EndsWith(raw_message, sq3))
        THEN StripChars(StripChars(Strip(raw_message), {"\""}), {"'"})
        ELSE StripChars(StripChars(raw_message, {"\""}), {"'"})

\* ------------------------------------------------------------------------
\* update_version_in_files: the regular expression and re.subn
\* ------------------------------------------------------------------------

KW_VERSION == <<"v", "e", "r", "s", "i", "o", "n">>

KW_DUNDER == <<"_", "_", "v", "e", "r", "s", "i", "o", "n", "_", "_">>

QuoteChars == {"'", "\""}

\* The index after the run of \s* that starts at index i.
SkipWs(s, i) ==
    SetMin({j \in i..Len(s) : j = Len(s) \/ s[j + 1] \notin Whitespace})

\* \s*=\s*['"]old['"] matched at index i: the index after the match, or -1.
MatchAssignment(s, i, old) ==
    LET a == SkipWs(s, i)
    IN  IF ~MatchesAt(s, <<"=">>, a) THEN -1
        ELSE LET b == SkipWs(s, a + 1)
             IN  IF b < Len(s) /\ s[b + 1] \in QuoteChars
                    /\ MatchesAt(s, old, b + 1)
                    /\ b + 1 + Len(old) < Len(s)
                    /\ s[b + 1 + Len(old) + 1] \in QuoteChars
                 THEN b + 1 + Len(old) + 1
                 ELSE -1

\* The compiled pattern matched at index i, the first alternative tried first:
\* the index after the match, or -1.
PatternMatchEnd(s, i, old) ==
    LET first  == IF MatchesAt(s, KW_VERSION, i)
                  THEN MatchAssignment(s, i + Len(KW_VERSION), old) ELSE -1
        second == IF MatchesAt(s, KW_DUNDER, i)
                  THEN MatchAssignment(s, i + Len(KW_DUNDER), old) ELSE -1
    IN  IF first >= 0 THEN first ELSE second

\* The group reference \g<0> of a replacement template.
GROUP0 == <<"\\", "g", "<", "0", ">">>

\* The replacement template expanded for one match: \g<0> is the whole match.
RECURSIVE Expand(_, _)
Expand(template, match) ==
    IF template = <<>> THEN <<>>
    ELSE IF MatchesAt(template, GROUP0, 0)
         THEN match \o Expand(PySliceFrom(template, Len(GROUP0)), match)
         ELSE <<template[1]>> \o Expand(Tail(template), match)

\* re.subn(pattern, replacement, content) from index i on: the text and the count.
RECURSIVE SubnFrom(_, _, _, _)
SubnFrom(s, i, old, replacement) ==
    IF i >= Len(s) THEN [text |-> <<>>, count |-> 0]
    ELSE LET e == PatternMatchEnd(s, i, old)
         IN  IF e >= 0
             THEN LET rest == SubnFrom(s, e, old, replacement)
                  IN  [text  |-> Expand(replacement, SubSeq(s, i + 1, e)) \o rest.text,
                       count |-> rest.count + 1]
             ELSE LET rest == SubnFrom(s, i + 1, old, replacement)
                  IN  [text |-> <<s[i + 1]>> \o rest.text, count |-> rest.count]

\* The new content and match count of one auxiliary file.
patch_content(content, old_version, new_version) ==
    SubnFrom(content, 0, old_version, StrReplace(GROUP0, old_version, new_version))

\* Whether update_version_in_files finds a match in the file at path.
HasMatch(files, path, old_version, new_version) ==
    /\ files[path].exists
    /\ patch_content(files[path].text, old_version, new_version).count > 0

\* The sequence q restricted to the elements that satisfy keep, in order.
RECURSIVE SelectPaths(_, _)
SelectPaths(q, keep) ==
    IF q = <<>> THEN <<>>
    ELSE (IF Head(q) \in keep THEN <<Head(q)>> ELSE <<>>) \o SelectPaths(Tail(q), keep)

\* update_version_in_files(old_version, new_version, dry_run): the auxiliary
\* files afterwards, the list returned, and the files announced on the console.
update_version_in_files(files, old_version, new_version, dry_run) ==
    LET matched == {p \in AuxPaths : HasMatch(files, p, old_version, new_version)}
        listed  == SelectPaths(VERSIONED_FILES, matched)
    IN  [files |-> [p \in AuxPaths |->
                      IF p \in matched /\ ~dry_run
                      THEN File(patch_content(files[p].text, old_version, new_version).text)
                      ELSE files[p]],
         updated_files |-> IF dry_run THEN <<>> ELSE listed,
         announced     |-> listed]

\* ------------------------------------------------------------------------
\* update_files: the changelog insertion
\* ------------------------------------------------------------------------

\* The changelog text update_files writes, given CHANGELOG.md and the entry.
insert_changelog_entry(changelog, changelog_entry) ==
    LET read    == IF changelog.exists THEN Strip(changelog.text) ELSE FRESH_CHANGELOG
        content == IF StartsWith(read, HEADING) THEN read ELSE FRESH_CHANGELOG \o read
        insert_index == PyFind(content, <<"\n">>, PyFind(content, HEADING, 0) + Len(HEADING))
        new_content  == PySliceTo(content, insert_index) \o <<"\n">> \o changelog_entry
                        \o Strip(PySliceFrom(content, insert_index))
    IN  Strip(new_content) \o <<"\n">>

\* ------------------------------------------------------------------------
\* Inputs drawn by the model
\* ------------------------------------------------------------------------

\* Raw command-line messages: plain, double-quoted, multi-line with blanks
\* around it, quotes around nothing, triple-quoted.
Messages ==
    { <<"f", "i", "x">>,
      <<"\"", "f", "i", "x", "\"">>,
      <<" ", "x", "\n", "y", " ">>,
      <<"\"", "\"">>,
      <<"'", "'", "'", "x", "'", "'", "'">> }

BumpKinds == {"patch", "minor", "major"}

\* The --category choices the model draws (argparse admits CategoryKeys only).
Categories == {"feature", "fix"}

\* What `git status --porcelain` meets in the working directory.
GitEnvs == {"clean", "dirty", "not_a_repo", "git_missing"}

\* datetime.now().strftime("%Y-%m-%d")
Dates == { <<"2", "0", "2", "4", "-", "0", "1", "-", "0", "1">> }

\* VERSION at the start: absent, 1.2.3, 0.0.0 with a line break, two
\* components only, and a component that is a superscript digit.
VersionFiles ==
    { Absent,
      File(<<"1", ".", "2", ".", "3">>),
      File(<<"0", ".", "0", ".", "0", "\n">>),
      File(<<"1", ".", "2">>),
      File(<<"1", ".", "SUP2", ".", "3">>) }

\* CHANGELOG.md at the start: absent, the heading alone, a single heading
\* line that goes on after "# Changelog", the heading with earlier content,
\* content without the heading.
ChangelogFiles ==
    { Absent,
      File(HEADING \o <<"\n">>),
      File(HEADING \o <<":", "\n">>),
      File(HEADING \o <<"\n", "\n", "o", "l", "d", "\n">>),
      File(<<"o", "l", "d", "\n">>) }

\* setup.py at the start: absent, version = "1.2.3", version="2.0.0".
SetupFiles ==
    { Absent,
      File(<<"v", "e", "r", "s", "i", "o", "n", " ", "=", " ",
             "\"", "1", ".", "2", ".", "3", "\"", "\n">>),
      File(<<"v", "e", "r", "s", "i", "o", "n", "=",
             "\"", "2", ".", "0", ".", "0", "\"">>) }

\* src/__init__.py at the start: absent, __version__ = '1.2.3'.
InitFiles ==
    { Absent,
      File(<<"_", "_", "v", "e", "r", "s", "i", "o", "n", "_", "_", " ", "=", " ",
             "'", "1", ".", "2", ".", "3", "'">>) }

\* ------------------------------------------------------------------------
\* State
\* ------------------------------------------------------------------------

VARIABLES
    version_file,     \* VERSION
    changelog_file,   \* CHANGELOG.md
    aux_files,        \* the files of VERSIONED_FILES, by path
    pc,               \* where main() stands
    runs,             \* invocations of main() so far
    args,             \* parse_args(): message, bump, category, dry_run
    git_env,          \* what git meets during this invocation
    today,            \* the date datetime.now() gives this invocation
    message,          \* main(): the normalised message
    current_version,  \* main(): current_version
    new_version,      \* main(): new_version
    changelog_entry,  \* update_files(): changelog_entry
    files_to_add,     \* main(): files_to_add
    announced,        \* console: the auxiliary files reported (would) update(d)
    git_log,          \* the git add/commit/tag/push commands run, with their outcome
    exit_code,        \* the process exit code, -1 while main() runs
    uncaught,         \* whether the process died of an uncaught exception
    start,            \* the three kinds of file when this invocation started
    prev              \* what the previous invocation did

vars == <<version_file, changelog_file, aux_files, pc, runs, args, git_env, today,
          message, current_version, new_version, changelog_entry, files_to_add,
          announced, git_log, exit_code, uncaught, start, prev>>

files == <<version_file, changelog_file, aux_files>>

locals == <<message, current_version, new_version, changelog_entry, files_to_add,
            announced>>

inputs == <<args, git_env, today, runs, start, prev>>

Snapshot == [version |-> version_file, changelog |-> changelog_file, aux |-> aux_files]

Init ==
    /\ version_file \in VersionFiles
    /\ changelog_file \in ChangelogFiles
    /\ aux_files \in [AuxPaths -> SetupFiles \cup InitFiles]
    /\ aux_files["setup.py"] \in SetupFiles
    /\ aux_files["src/__init__.py"] \in InitFiles
    /\ pc = "idle"
    /\ runs = 0
    /\ args \in [message : Messages, bump : BumpKinds, category : Categories,
                 dry_run : {FALSE}]
    /\ git_env = "clean"
    /\ today \in Dates
    /\ message = <<>>
    /\ current_version = <<>>
    /\ new_version = <<>>
    /\ changelog_entry = <<>>
    /\ files_to_add = <<>>
    /\ announced = <<>>
    /\ git_log = <<>>
    /\ exit_code = -1
    /\ uncaught = FALSE
    /\ start = [version |-> version_file, changelog |-> changelog_file, aux |-> aux_files]
    /\ prev = [ran |-> FALSE, args |-> args, exit_code |-> -1,
               start |-> [version |-> version_file, changelog |-> changelog_file,
                          aux |-> aux_files],
               changelog_entry |-> <<>>, announced |-> <<>>]

\* sys.exit(code), or the interpreter ending the process
Exit(code) ==
    /\ pc' = "exited"
    /\ exit_code' = code

\* ------------------------------------------------------------------------
\* main()
\* ------------------------------------------------------------------------

\* A new process: parse_args() has read the command line, which is the one
\* drawn at the start, given with or without --dry-run.
StartRun ==
    /\ pc \in {"idle", "exited"}
    /\ runs < MaxRuns
    /\ \E d \in BOOLEAN : args' = [args EXCEPT !.dry_run = d]
    /\ git_env' \in GitEnvs
    /\ today' \in Dates
    /\ runs' = runs + 1
    /\ pc' = "check_clean"
    /\ exit_code' = -1
    /\ uncaught' = FALSE
    /\ message' = <<>>
    /\ current_version' = <<>>
    /\ new_version' = <<>>
    /\ changelog_entry' = <<>>
    /\ files_to_add' = <<>>
    /\ announced' = <<>>
    /\ git_log' = <<>>
    /\ start' = Snapshot
    /\ prev' = IF pc = "idle" THEN prev
               ELSE [ran |-> TRUE, args |-> args, exit_code |-> exit_code,
                     start |-> start, changelog_entry |-> changelog_entry,
                     announced |-> announced]
    /\ UNCHANGED files

\* is_working_dir_clean(): whether it exits the process, and what it returns.
is_working_dir_clean(env) ==
    [exits |-> env \in {"not_a_repo", "git_missing"}, clean |-> env = "clean"]

\* CheckClean without the test: the release goes on whatever git status says.
CheckCleanSkipped ==
    /\ pc = "check_clean"
    /\ pc' = "normalize"
    /\ UNCHANGED <<exit_code, uncaught, files, locals, inputs, git_log>>

\* main(): the working tree must be clean unless this is a dry run.
CheckClean ==
    /\ pc = "check_clean"
    /\ IF args.dry_run
       THEN pc' = "normalize" /\ UNCHANGED exit_code
       ELSE LET r == is_working_dir_clean(git_env)
            IN  IF r.exits \/ ~r.clean
                THEN Exit(1)
                ELSE pc' = "normalize" /\ UNCHANGED exit_code
    /\ UNCHANGED <<uncaught, files, locals, inputs, git_log>>

\* main(): the message is normalised; an empty one ends the process.
NormalizeMessage ==
    /\ pc = "normalize"
    /\ message' = normalize_message(args.message)
    /\ IF Strip(message') = <<>>
       THEN Exit(1)
       ELSE pc' = "read_version" /\ UNCHANGED exit_code
    /\ UNCHANGED <<uncaught, files, current_version, new_version, changelog_entry,
                   files_to_add, announced, inputs, git_log>>

\* main(): current_version = get_current_version()
ReadVersion ==
    /\ pc = "read_version"
    /\ LET r == get_current_version(version_file)
       IN  /\ current_version' = r.ret
           /\ version_file' = r.file
    /\ pc' = "bump"
    /\ UNCHANGED <<exit_code, uncaught, changelog_file, aux_files, message, new_version,
                   changelog_entry, files_to_add, announced, inputs, git_log>>

\* main(): new_version = bump_version(current_version, args.bump); a
\* ValueError is caught nowhere and ends the process with a traceback.
BumpVersion ==
    /\ pc = "bump"
    /\ LET r == bump_version(current_version, args.bump)
       IN  IF r.raised
           THEN Exit(1) /\ uncaught' = TRUE /\ UNCHANGED new_version
           ELSE /\ new_version' = r.value
                /\ pc' = "update_files"
                /\ UNCHANGED <<exit_code, uncaught>>
    /\ UNCHANGED <<files, message, current_version, changelog_entry, files_to_add,
                   announced, inputs, git_log>>

\* main(): files_to_add = update_files(new_version, message, category, dry_run)
UpdateFiles ==
    /\ pc = "update_files"
    /\ changelog_entry' = build_changelog_entry(new_version, message, args.category, today)
    /\ IF args.dry_run
       THEN LET r == get_current_version(version_file)
                u == update_version_in_files(aux_files, r.ret, new_version, TRUE)
            IN  /\ version_file' = r.file
                /\ aux_files' = u.files
                /\ announced' = u.announced
                /\ files_to_add' = <<>>
                /\ UNCHANGED changelog_file
       ELSE LET written == File(Strip(new_version))
                r == get_current_version(written)
                u == update_version_in_files(aux_files, r.ret, new_version, FALSE)
            IN  /\ changelog_file' =
                      File(insert_changelog_entry(changelog_file, changelog_entry'))
                /\ version_file' = r.file
                /\ aux_files' = u.files
                /\ announced' = u.announced
                /\ files_to_add' = <<"VERSION", "CHANGELOG.md">> \o u.updated_files
    /\ pc' = "git"
    /\ UNCHANGED <<exit_code, uncaught, message, current_version, new_version, inputs,
                   git_log>>

\* ------------------------------------------------------------------------
\* git_commit_and_tag()
\* ------------------------------------------------------------------------

\* subprocess.run([...], check=True): the command is run; a non-zero exit
\* raises CalledProcessError, which git_commit_and_tag reports and returns on.
RunGit(cmd, arg, next) ==
    \E ok \in BOOLEAN :
        /\ git_log' = Append(git_log, [cmd |-> cmd, arg |-> arg, ok |-> ok])
        /\ pc' = IF ok THEN next ELSE "finish"
        /\ UNCHANGED <<exit_code, uncaught, files, locals, inputs>>

\* A subprocess.run without check=True: a failure goes unnoticed.
RunGitUnchecked(cmd, arg, next) ==
    \E ok \in BOOLEAN :
        /\ git_log' = Append(git_log, [cmd |-> cmd, arg |-> arg, ok |-> ok])
        /\ pc' = next
        /\ UNCHANGED <<exit_code, uncaught, files, locals, inputs>>

\* git_commit_and_tag(..., dry_run=True) returns at once.
GitSkip ==
    /\ pc = "git"
    /\ args.dry_run
    /\ pc' = "finish"
    /\ UNCHANGED <<exit_code, uncaught, files, locals, inputs, git_log>>

GitAdd ==
    /\ pc = "git"
    /\ ~args.dry_run
    /\ RunGit("add", files_to_add, "git_commit")

ReleaseLine ==
    <<"R", "e", "l", "e", "a", "s", "e", ":", " ">> \o message
    \o <<" ", "(", "v">> \o new_version \o <<")">>

\* GitCommit going on to the tag whether the commit succeeded or not.
GitCommitUnchecked ==
    /\ pc = "git_commit"
    /\ RunGitUnchecked("commit", ReleaseLine, "git_tag")

GitCommit ==
    /\ pc = "git_commit"
    /\ RunGit("commit", ReleaseLine, "git_tag")

GitTag ==
    /\ pc = "git_tag"
    /\ RunGit("tag", <<"v">> \o new_version, "git_push")

GitPush ==
    /\ pc = "git_push"
    /\ RunGit("push", <<>>, "git_push_tags")

GitPushTags ==
    /\ pc = "git_push_tags"
    /\ RunGit("push", <<"--tags">>, "finish")

\* main() prints the closing line and returns: exit code 0.
Finish ==
    /\ pc = "finish"
    /\ Exit(0)
    /\ UNCHANGED <<uncaught, files, locals, inputs, git_log>>

Next ==
    \/ StartRun
    \/ CheckClean
    \/ NormalizeMessage
    \/ ReadVersion
    \/ BumpVersion
    \/ UpdateFiles
    \/ GitSkip
    \/ GitAdd
    \/ GitCommit
    \/ GitTag
    \/ GitPush
    \/ GitPushTags
    \/ Finish

Spec == Init /\ [][Next]_vars

\* ------------------------------------------------------------------------
\* bump_version on its own: main() stands before the call, with every
\* version up to MaxComponent in each component (the first one also written
\* with a leading zero) and every bump kind, an unrecognised one included.
\* ------------------------------------------------------------------------

InitBump ==
    /\ \E a \in 0..MaxComponent, b \in 0..MaxComponent, c \in 0..MaxComponent,
          padded \in BOOLEAN :
          current_version =
              Dot((IF padded THEN <<"0">> ELSE <<>>) \o FormatInt(a),
                  FormatInt(b), FormatInt(c))
    /\ version_file = File(current_version)
    /\ changelog_file = Absent
    /\ aux_files = [p \in AuxPaths |-> Absent]
    /\ pc = "bump"
    /\ runs = 1
    /\ args \in [message : {<<"f", "i", "x">>}, bump : BumpKinds \cup {"other"},
                 category : {"feature"}, dry_run : BOOLEAN]
    /\ git_env = "clean"
    /\ today \in Dates
    /\ message = <<"f", "i", "x">>
    /\ new_version = <<>>
    /\ changelog_entry = <<>>
    /\ files_to_add = <<>>
    /\ announced = <<>>
    /\ git_log = <<>>
    /\ exit_code = -1
    /\ uncaught = FALSE
    /\ start = [version |-> version_file, changelog |-> changelog_file, aux |-> aux_files]
    /\ prev = [ran |-> FALSE, args |-> args, exit_code |-> -1,
               start |-> [version |-> version_file, changelog |-> changelog_file,
                          aux |-> aux_files],
               changelog_entry |-> <<>>, announced |-> <<>>]

NextBump == BumpVersion

SpecBump == InitBump /\ [][NextBump]_vars

\* ------------------------------------------------------------------------
\* Properties
\* ------------------------------------------------------------------------

Terminated == pc = "exited"

\* This invocation was an apply run that went through update_files.
Applied == Terminated /\ exit_code = 0 /\ ~args.dry_run

EmptyMessage == Strip(normalize_message(args.message)) = <<>>

\* text holds a recognised assignment of version v
HoldsAssignment(text, v) ==
    \E i \in 0..Len(text) : PatternMatchEnd(text, i, v) >= 0

\* text is exactly three dot-separated non-negative decimal integers
IsTriple(text) ==
    LET parts == Split(text, ".")
    IN  Len(parts) = 3 /\ \A i \in 1..3 : IntParses(parts[i])

\* The three integers of a version string.
Triple(v) ==
    LET parts == Split(v, ".")
    IN  <<ParseInt(parts[1]), ParseInt(parts[2]), ParseInt(parts[3])>>

\* C1: a dry run never changes the version file, the changelog file or an
\* auxiliary file: during and after a dry run they are as they were when it
\* started.
C1_DryRunLeavesFiles ==
    (pc # "idle" /\ args.dry_run) => Snapshot = start

\* C2: after an apply run, every auxiliary file that held the pre-bump
\* version in a recognised assignment holds the post-bump version instead.
C2_AuxFilesRewritten ==
    Applied =>
        \A p \in AuxPaths :
            (start.aux[p].exists /\ HoldsAssignment(start.aux[p].text, current_version))
            => /\ HoldsAssignment(aux_files[p].text, new_version)
               /\ ~HoldsAssignment(aux_files[p].text, current_version)

\* The fatal setup errors as C3 and C8 list them: a dirty tree in apply mode,
\* git missing or no repository (in either mode), an empty normalised message.
FatalSetupAsClaimed ==
    \/ ~args.dry_run /\ git_env = "dirty"
    \/ git_env \in {"not_a_repo", "git_missing"}
    \/ EmptyMessage

\* The fatal setup errors the code meets: git status is run in apply mode only.
FatalSetup ==
    \/ ~args.dry_run /\ git_env # "clean"
    \/ EmptyMessage

\* C3 as claimed: whenever the tree is dirty in apply mode, git is missing or
\* the directory is no repository, or the normalised message is empty, main
\* ends with a non-zero code, the files unchanged and no git command run.
C3_AsClaimed ==
    (Terminated /\ FatalSetupAsClaimed)
    => (exit_code # 0 /\ Snapshot = start /\ git_log = <<>>)

\* C3: in apply mode with a dirty tree, git missing or no repository, and in
\* either mode with an empty normalised message, main never gets past the
\* message check: the files stay as they were, no git add/commit/tag/push is
\* run, and the process ends by sys.exit(1).
C3_FatalSetupAborts ==
    (pc # "idle" /\ FatalSetup)
    => /\ pc \in {"check_clean", "normalize", "exited"}
       /\ Snapshot = start
       /\ git_log = <<>>
       /\ (Terminated => exit_code = 1 /\ ~uncaught)

\* C3 witness: an apply run on a dirty tree, with no VERSION file and no
\* changelog to begin with, has exited with code 1.
C3_Witness ==
    /\ Terminated /\ exit_code = 1
    /\ ~args.dry_run /\ git_env = "dirty"
    /\ ~version_file.exists /\ ~changelog_file.exists

\* The changelog document holds the top heading only.
HeadingOnly(f) == ~f.exists \/ Strip(f.text) = HEADING

\* C4: an entry inserted into a document that holds only the top heading
\* gives a document whose first line is the heading, in which the heading
\* line occurs once, and where the entry is the block right after it.
C4_HeadingOnlyInsert ==
    (Applied /\ HeadingOnly(start.changelog))
    => LET text  == changelog_file.text
           lines == Split(text, "\n")
       IN  /\ StartsWith(text, HEADING \o <<"\n">>)
           /\ Cardinality({i \in 1..Len(lines) : lines[i] = HEADING}) = 1
           /\ MatchesAt(text, Strip(changelog_entry), Len(HEADING) + 1)

\* The first line of the document two insertions start from, as the top
\* heading the entries go under.
TopLine(f) ==
    LET read == IF f.exists THEN Strip(f.text) ELSE <<>>
    IN  IF StartsWith(read, HEADING) THEN Split(read, "\n")[1] ELSE HEADING

\* What that document holds below its top heading.
Body(f) ==
    LET read == IF f.exists THEN Strip(f.text) ELSE <<>>
    IN  IF StartsWith(read, HEADING)
        THEN Strip(PySliceFrom(read, Len(TopLine(f))))
        ELSE read

\* C5: after two successive apply runs the changelog starts with its top
\* heading line, the later entry comes right under it, the earlier entry
\* after that, and what the document held before comes after both.
C5_TwoInsertions ==
    (Applied /\ prev.ran /\ prev.exit_code = 0 /\ ~prev.args.dry_run)
    => LET text  == changelog_file.text
           top   == TopLine(prev.start.changelog)
           body  == Body(prev.start.changelog)
           later == Strip(changelog_entry)
           early == Strip(prev.changelog_entry)
           at1   == PyFind(text, early, Len(top) + 1 + Len(later))
       IN  /\ StartsWith(text, top \o <<"\n">>)
           /\ MatchesAt(text, later, Len(top) + 1)
           /\ at1 >= 0
           /\ PyFind(text, body, at1 + Len(early)) >= 0

\* C6: get_current_version returns 0.0.0 and leaves 0.0.0 in the file when
\* the file is missing or is not three dot-separated non-negative integers,
\* and returns the triple and leaves the file alone when it holds one.
C6_ReadVersion ==
    pc = "bump"
    => IF start.version.exists /\ IsTriple(Strip(start.version.text))
       THEN current_version = Strip(start.version.text) /\ version_file = start.version
       ELSE current_version = DEFAULT_VERSION /\ version_file = File(DEFAULT_VERSION)

\* C7: bump_version gives (major+1, 0, 0) for major, (major, minor+1, 0) for
\* minor and (major, minor, patch+1) for patch or any other kind.
C7_BumpTransitions ==
    pc = "update_files"
    => LET old == Triple(current_version)
       IN  /\ Len(Split(new_version, ".")) = 3
           /\ Triple(new_version) =
                 IF args.bump = "major" THEN <<old[1] + 1, 0, 0>>
                 ELSE IF args.bump = "minor" THEN <<old[1], old[2] + 1, 0>>
                 ELSE <<old[1], old[2], old[3] + 1>>

\* C7 witness: a minor bump of a version with a non-zero patch, whose result
\* has a two-digit minor, has been computed.
C7_Witness ==
    /\ pc = "update_files"
    /\ args.bump = "minor"
    /\ Triple(current_version) = <<1, 9, 3>>
    /\ new_version = <<"1", ".", "1", "0", ".", "0">>

\* C8: the exit code is 1 exactly when the tree is dirty in apply mode, the
\* normalised message is empty, or git is missing / there is no repository;
\* every other run ends with 0.
C8_ExitCodes ==
    Terminated => (exit_code = 1 <=> FatalSetupAsClaimed) /\ exit_code \in {0, 1}

\* The git commands in the order git_commit_and_tag runs them.
GitOrder ==
    << [cmd |-> "add",    arg |-> files_to_add],
       [cmd |-> "commit", arg |-> ReleaseLine],
       [cmd |-> "tag",    arg |-> <<"v">> \o new_version],
       [cmd |-> "push",   arg |-> <<>>],
       [cmd |-> "push",   arg |-> <<"--tags">>] >>

\* C9: the git commands run are a prefix of add, commit, tag v<new version>,
\* push, push --tags; every one but the last run succeeded; none runs in a
\* dry run; and none runs before VERSION and the changelog are written.
C9_GitStepOrder ==
    /\ Len(git_log) <= Len(GitOrder)
    /\ \A i \in 1..Len(git_log) :
          /\ git_log[i].cmd = GitOrder[i].cmd
          /\ git_log[i].arg = GitOrder[i].arg
          /\ (i < Len(git_log) => git_log[i].ok)
    /\ (args.dry_run => git_log = <<>>)
    /\ (git_log # <<>> =>
          /\ version_file = File(new_version)
          /\ changelog_file.exists
          /\ Contains(changelog_file.text, Strip(changelog_entry)))

\* C9 witness: the tag failed after add and commit succeeded, and the
\* process ended without a push.
C9_Witness ==
    /\ Terminated
    /\ Len(git_log) = 3
    /\ git_log[1].ok /\ git_log[2].ok /\ ~git_log[3].ok

\* C10: an apply run that follows a dry run with the same command line, from
\* the same files, announces as updated exactly the auxiliary files the dry
\* run announced it would update, and stages them.
C10_DryRunAgrees ==
    (Applied /\ prev.ran /\ prev.args.dry_run /\ prev.exit_code = 0
       /\ prev.start = start
       /\ [prev.args EXCEPT !.dry_run = FALSE] = args)
    => /\ announced = prev.announced
       /\ files_to_add = <<"VERSION", "CHANGELOG.md">> \o prev.announced

====
